---- MODULE Spec2Model ----
(***************************************************************************)
(* Model of the test-extraction pipeline of pytestbank:                    *)
(*   scripts/03_extract_tests.py  (Extractor and its parallel driver)      *)
(*   scripts/04_deduplicate.py    (Deduplicator)                           *)
(*   scripts/05_normalize.py      (Normalizer)                             *)
(* Each stage is a batch program; it gets its own specification over the   *)
(* shared variable tuple, the other stages' variables staying idle.        *)
(***************************************************************************)
EXTENDS Integers, Sequences, FiniteSets, TLC

VARIABLES
    \* ---- 04_deduplicate.py ----
    ddPc,                   \* position in the script
    ddFile,                 \* ../dataset/python_tests.json: Absent or Present(dataset)
    data,                   \* the loaded dataset
    total_tests,
    unique_tests,           \* dict: body -> first TestRecord seen with it
    duplicate_counts,       \* defaultdict(int): body -> count
    repo_duplicate_counts,  \* Counter, in insertion order: seq of [repo, count]
    deduplicated_data,
    seen_files,
    dedup_stats,
    ddWritten,              \* the two artifacts as written (or Absent)
    ddExit,                 \* "running" | "ok" | "error"
    \* ---- 05_normalize.py ----
    nmPc,                   \* position in normalize_dataset / __main__
    nmFile,                 \* input_path: Absent or Present(dataset)
    nmData,                 \* data, whose test bodies are rewritten in place
    normalized_count,
    skipped_count,
    nmWarnings,             \* warnings logged by normalize_code (line 38)
    nmWritten,              \* output_path as written (or Absent)
    nmExit,                 \* "running" | "ok" | "error"
    \* ---- 03_extract_tests.py: extract_test_functions ----
    exPc,                   \* "call" | "returned"
    exFile,                 \* the source file handed to extract_test_functions
    exResult,               \* the (tests, error) pair returned
    \* ---- 03_extract_tests.py: main and its worker pool ----
    drPc,                   \* "start" | "pool" | "exited"
    drClonesDir,            \* ../clones: Absent or Present(directory -> clone)
    drReposFile,            \* ../repos_with_tests.txt: Absent or Present(list)
    drCpus,                 \* multiprocessing.cpu_count()
    repos,
    extraction_metadata,
    dataset,
    drTasks,                \* per listed repository: "queued" | "running" | "done"
    drResults,              \* results sent back, in completion order
    drWritten,              \* the two artifacts as written (or Absent)
    drExit                  \* "running" | "ok" | "error"

ddVars == <<ddPc, ddFile, data, total_tests, unique_tests, duplicate_counts,
            repo_duplicate_counts, deduplicated_data, seen_files, dedup_stats,
            ddWritten, ddExit>>

nmVars == <<nmPc, nmFile, nmData, normalized_count, skipped_count, nmWarnings,
            nmWritten, nmExit>>

exVars == <<exPc, exFile, exResult>>

drVars == <<drPc, drClonesDir, drReposFile, drCpus, repos, extraction_metadata,
            dataset, drTasks, drResults, drWritten, drExit>>

vars == <<ddVars, nmVars, exVars, drVars>>

\* A file of the working tree: absent, or present with a content
Absent == <<>>
Present(content) == <<content>>
ContentOf(f) == f[1]

\* ------------------------------------------------------------------------
\* Generic helpers
\* ------------------------------------------------------------------------
SeqsUpTo(S, n) == UNION {[1..k -> S] : k \in 0..n}

RECURSIVE SumSeq(_)
SumSeq(s) == IF s = <<>> THEN 0 ELSE Head(s) + SumSeq(Tail(s))

\* ------------------------------------------------------------------------
\* Deduplicator: scripts/04_deduplicate.py
\* ------------------------------------------------------------------------
DdMaxEntries == 2
DdMaxTests == 2

Repos == {"r1", "r2"}
Files == {"f1", "f2"}
Names == {"test_a", "test_b"}
Bodies == {"b1", "b2"}
TestPaths == {"p1"}

\* A TestRecord of the dataset; records are compared by value, so two
\* records of the input are equal exactly when all their fields agree.
TestRecords == [name : Names, body : Bodies, file : TestPaths]
FileEntries == [repo : Repos, file : Files, tests : SeqsUpTo(TestRecords, DdMaxTests)]
DdDatasets == SeqsUpTo(FileEntries, DdMaxEntries)

EmptyDict == [k \in {} |-> 0]

DictPut(d, k, v) == [x \in (DOMAIN d) \cup {k} |-> IF x = k THEN v ELSE d[x]]

\* defaultdict(int)[key] += 1
DefaultInc(d, k) == DictPut(d, k, (IF k \in DOMAIN d THEN d[k] ELSE 0) + 1)

\* Counter[repo] += 1, keeping the insertion order most_common() ties on
CounterInc(c, repo) ==
    IF \E i \in 1..Len(c) : c[i].repo = repo
    THEN [i \in 1..Len(c) |->
            IF c[i].repo = repo THEN [c[i] EXCEPT !.count = @ + 1] ELSE c[i]]
    ELSE Append(c, [repo |-> repo, count |-> 1])

InitialStats(d) ==
    [original_entries |-> Len(d),
     original_tests |-> SumSeq([i \in 1..Len(d) |-> Len(d[i].tests)]),
     unique_entries |-> 0,
     unique_tests |-> 0,
     duplicate_entries |-> 0,
     duplicate_tests |-> 0,
     repositories_with_duplicates |-> 0,
     top_duplicate_repos |-> <<>>]

\* lines 35-44: the inner loop over one entry's tests
RECURSIVE ScanTests(_, _, _, _)
ScanTests(tests, i, repo, acc) ==
    IF i > Len(tests) THEN acc
    ELSE LET test == tests[i]
             key == test.body
         IN IF key \notin DOMAIN acc.unique
            THEN ScanTests(tests, i + 1, repo,
                     [acc EXCEPT !.unique = DictPut(acc.unique, key, test)])
            ELSE ScanTests(tests, i + 1, repo,
                     [acc EXCEPT !.dups = DefaultInc(acc.dups, key),
                                 !.repoDups = CounterInc(acc.repoDups, repo)])

\* lines 26-44: the first loop over the entries
RECURSIVE ScanEntries(_, _, _)
ScanEntries(d, i, acc) ==
    IF i > Len(d) THEN acc
    ELSE ScanEntries(d, i + 1,
             ScanTests(d[i].tests, 1, d[i].repo,
                 [acc EXCEPT !.total = @ + Len(d[i].tests)]))

\* lines 52-53: the tests of an entry that compare equal (==) to the stored one
IsUniqueEntryTest(t, u) == t.body \in DOMAIN u /\ u[t.body] = t
UniqueEntryTests(entry, u) ==
    SelectSeq(entry.tests, LAMBDA t : IsUniqueEntryTest(t, u))

\* line 61: f"{entry['repo']}:{entry['file']}"
FileRepoKey(entry) == <<entry.repo, ":", entry.file>>

\* lines 50-64: the second loop
RECURSIVE FilterEntries(_, _, _, _)
FilterEntries(d, i, u, acc) ==
    IF i > Len(d) THEN acc
    ELSE LET entry == d[i]
             unique_entry_tests == UniqueEntryTests(entry, u)
             new_entry == [entry EXCEPT !.tests = unique_entry_tests]
             file_repo_key == FileRepoKey(entry)
         IN IF unique_entry_tests # <<>> /\ file_repo_key \notin acc.seen
            THEN FilterEntries(d, i + 1, u,
                     [seen |-> acc.seen \cup {file_repo_key},
                      out |-> Append(acc.out, new_entry)])
            ELSE FilterEntries(d, i + 1, u, acc)

\* Counter.most_common(n): by count, descending; ties in insertion order
TopN == 10
RECURSIVE MostCommon(_, _)
MostCommon(c, n) ==
    IF n = 0 \/ c = <<>> THEN <<>>
    ELSE LET best == CHOOSE i \in 1..Len(c) :
                        /\ \A j \in 1..Len(c) : c[j].count <= c[i].count
                        /\ \A j \in 1..(i - 1) : c[j].count < c[i].count
             rest == [j \in 1..(Len(c) - 1) |-> IF j < best THEN c[j] ELSE c[j + 1]]
         IN <<c[best]>> \o MostCommon(rest, n - 1)

\* ------------------------------------------------------------------------
\* Normalizer: scripts/05_normalize.py
\* ------------------------------------------------------------------------
NmMaxEntries == 2
NmMaxTests == 2

\* A body is a sequence of lexical pieces:
\*   "c"   code already in the formatter's style
\*   "sp"  superfluous whitespace
\*   "im"  an `import X  as  Y` with irregular spacing, "ic" the regular one
\*   "q"   a triple-single-quote delimiter, "d" a triple-double-quote one
\*   "err" text that is not valid standalone source
NmBodies == { <<"c">>,
              <<"sp", "im", "q", "c", "q">>,
              <<"q", "err", "q">> }
NmTestRecords == [name : {"test_a"}, body : NmBodies, file : {"p1"}, class : {"FooTests"}]
NmEntries == [repo : {"r1"}, file : {"f1"}, tests : SeqsUpTo(NmTestRecords, NmMaxTests)]
NmDatasets == SeqsUpTo(NmEntries, NmMaxEntries)

\* line 27, black.format_str: raises on text it cannot parse ...
BlackFails(code_str) == \E i \in 1..Len(code_str) : code_str[i] = "err"
\* ... and otherwise returns the text in its style
RECURSIVE BlackFormat(_)
BlackFormat(code_str) ==
    IF code_str = <<>> THEN <<>>
    ELSE LET h == Head(code_str)
             rest == BlackFormat(Tail(code_str))
         IN IF h = "sp" THEN rest
            ELSE IF h = "im" THEN <<"ic">> \o rest
            ELSE <<h>> \o rest

\* line 31: the import ... as ... spacing is made regular
ImportSub(text) == [i \in 1..Len(text) |-> IF text[i] = "im" THEN "ic" ELSE text[i]]

\* line 34: triple-single-quoted spans become triple-double-quoted: leftmost,
\* non-overlapping, shortest matches with at least one piece between the quotes
RECURSIVE QuoteSub(_)
QuoteSub(text) ==
    IF text = <<>> THEN <<>>
    ELSE IF Head(text) = "q" /\ \E j \in 3..Len(text) : text[j] = "q"
         THEN LET close == CHOOSE j \in 3..Len(text) :
                              text[j] = "q" /\ \A k \in 3..(j - 1) : text[k] # "q"
              IN <<"d">> \o SubSeq(text, 2, close - 1) \o <<"d">>
                     \o QuoteSub(SubSeq(text, close + 1, Len(text)))
         ELSE <<Head(text)>> \o QuoteSub(Tail(text))

\* lines 23-39, the value returned
normalize_code_partial(code_str) ==
    IF BlackFails(code_str) THEN QuoteSub(ImportSub(code_str))
    ELSE QuoteSub(ImportSub(BlackFormat(code_str)))
normalize_code(code_str) ==
    IF BlackFails(code_str) THEN code_str
    ELSE QuoteSub(ImportSub(BlackFormat(code_str)))

\* lines 55-65: the inner loop over one entry's tests. The handler of line 63
\* is never entered: normalize_code lets no exception out.
RECURSIVE NormalizeTests(_, _, _)
NormalizeTests(tests, j, acc) ==
    IF j > Len(tests) THEN [acc EXCEPT !.tests = tests]
    ELSE LET original == tests[j].body
             normalized == normalize_code(original)
         IN NormalizeTests([tests EXCEPT ![j].body = normalized], j + 1,
                [acc EXCEPT !.normalized = IF original # normalized THEN @ + 1 ELSE @,
                            !.warnings = IF BlackFails(original) THEN @ + 1 ELSE @])

\* lines 54-65: the loop over the entries
RECURSIVE NormalizeEntries(_, _, _)
NormalizeEntries(d, i, acc) ==
    IF i > Len(d) THEN [acc EXCEPT !.tests = d]
    ELSE LET r == NormalizeTests(d[i].tests, 1, acc)
         IN NormalizeEntries([d EXCEPT ![i].tests = r.tests], i + 1, r)

\* ------------------------------------------------------------------------
\* Extractor: extract_test_functions, scripts/03_extract_tests.py
\* ------------------------------------------------------------------------
ExMaxTopLevel == 2      \* statements in a module body
ExMaxMethods == 2       \* statements in a class body
ExMaxDecorators == 1    \* decorators on a function

\* Identifiers are sequences of characters.
Id_test_a == <<"t", "e", "s", "t", "_", "a">>
Id_test_x == <<"t", "e", "s", "t", "_", "x">>
Id_testx == <<"t", "e", "s", "t", "x">>
Id_a_test == <<"a", "_", "t", "e", "s", "t">>
Id_helper == <<"h", "e", "l", "p", "e", "r">>
Id_setup == <<"s", "e", "t", "u", "p">>
Id_FooTests == <<"F", "o", "o", "T", "e", "s", "t", "s">>
Id_TestCase == <<"T", "e", "s", "t", "C", "a", "s", "e">>
Id_Base == <<"B", "a", "s", "e">>
Id_unittest == <<"u", "n", "i", "t", "t", "e", "s", "t">>
Id_pytest == <<"p", "y", "t", "e", "s", "t">>
Id_mark == <<"m", "a", "r", "k">>
Id_parametrize == <<"p", "a", "r", "a", "m", "e", "t", "r", "i", "z", "e">>
Id_skip == <<"s", "k", "i", "p">>
Id_fixture == <<"f", "i", "x", "t", "u", "r", "e">>
Id_myTest == <<"m", "y", "T", "e", "s", "t">>
Id_test_ == <<"t", "e", "s", "t", "_">>
Id__test == <<"_", "t", "e", "s", "t">>
Id_test == <<"t", "e", "s", "t">>

\* str.startswith, str.endswith, `in`, str.lower
StartsWith(s, p) == Len(s) >= Len(p) /\ SubSeq(s, 1, Len(p)) = p
EndsWith(s, p) == Len(s) >= Len(p) /\ SubSeq(s, Len(s) - Len(p) + 1, Len(s)) = p
Contains(s, p) == \E i \in 1..(Len(s) - Len(p) + 1) : SubSeq(s, i, i + Len(p) - 1) = p
LowerChar(c) ==
    CASE c = "B" -> "b" [] c = "C" -> "c" [] c = "F" -> "f" [] c = "T" -> "t"
      [] OTHER -> c
Lower(s) == [i \in 1..Len(s) |-> LowerChar(s[i])]

\* ast expression nodes
NameNode(id) == [kind |-> "Name", id |-> id]
AttributeNode(value, attr) == [kind |-> "Attribute", value |-> value, attr |-> attr]
CallNode(func) == [kind |-> "Call", func |-> func]

ExDecorators ==
    { CallNode(AttributeNode(AttributeNode(NameNode(Id_pytest), Id_mark), Id_parametrize)),
      CallNode(AttributeNode(NameNode(Id_pytest), Id_mark)),
      AttributeNode(AttributeNode(NameNode(Id_pytest), Id_mark), Id_skip),
      CallNode(NameNode(Id_fixture)),
      NameNode(Id_myTest),
      NameNode(Id_fixture) }
ExBases ==
    { NameNode(Id_TestCase),
      AttributeNode(NameNode(Id_unittest), Id_TestCase),
      NameNode(Id_Base) }
ExFunctionNames == {Id_test_a, Id_a_test, Id_helper}
ExMethodNames == {Id_test_x, Id_testx, Id_setup}

FunctionDefs(names, maxDeco) ==
    [kind : {"FunctionDef"}, name : names, decorator_list : SeqsUpTo(ExDecorators, maxDeco)]
ClassDefs ==
    [kind : {"ClassDef"}, name : {Id_FooTests}, bases : SeqsUpTo(ExBases, 1),
     body : SeqsUpTo(FunctionDefs(ExMethodNames, 0), ExMaxMethods)]
\* a source file: whether ast.parse accepts it, and the definitions it holds
ExSourceFiles ==
    [path : {"p1"}, syntax_ok : BOOLEAN,
     body : SeqsUpTo(FunctionDefs(ExFunctionNames, ExMaxDecorators) \cup ClassDefs,
                     ExMaxTopLevel)]

\* every identifier an expression spells
RECURSIVE ExprIds(_)
ExprIds(e) ==
    CASE e.kind = "Name" -> {e.id}
      [] e.kind = "Attribute" -> {e.attr} \cup ExprIds(e.value)
      [] e.kind = "Call" -> ExprIds(e.func)
RECURSIVE NodeIds(_)
NodeIds(n) ==
    IF n.kind = "FunctionDef"
    THEN {n.name} \cup UNION {ExprIds(n.decorator_list[i]) : i \in 1..Len(n.decorator_list)}
    ELSE {n.name} \cup UNION {ExprIds(n.bases[i]) : i \in 1..Len(n.bases)}
                  \cup UNION {NodeIds(n.body[i]) : i \in 1..Len(n.body)}
\* line 16: "test" (hence also "unittest", "pytest") occurs in content.lower()
QuickCheck(f) ==
    \E i \in 1..Len(f.body) : \E id \in NodeIds(f.body[i]) : Contains(Lower(id), Id_test)

RECURSIVE Flatten(_)
Flatten(ss) == IF ss = <<>> THEN <<>> ELSE Head(ss) \o Flatten(Tail(ss))

\* line 33, ast.walk: breadth first, a class before any of its methods
Walk(body) ==
    body \o Flatten([i \in 1..Len(body) |->
                        IF body[i].kind = "ClassDef" THEN body[i].body ELSE <<>>])

\* lines 35-50: the condition of the function rule
MarkCall(d) ==
    /\ d.kind = "Call"
    /\ d.func.kind = "Attribute"
    /\ d.func.attr = Id_mark
TestNameDecorator(d) ==
    /\ d.kind = "Name"
    /\ Contains(Lower(d.id), Id_test)
IsTestFunction(node) ==
    /\ node.kind = "FunctionDef"
    /\ \/ StartsWith(node.name, Id_test_)
       \/ EndsWith(node.name, Id__test)
       \/ \E i \in 1..Len(node.decorator_list) : MarkCall(node.decorator_list[i])
       \/ \E i \in 1..Len(node.decorator_list) : TestNameDecorator(node.decorator_list[i])

\* lines 65-67: the condition of the class rule
IsTestCaseClass(node) ==
    /\ node.kind = "ClassDef"
    /\ \E i \in 1..Len(node.bases) :
           node.bases[i].kind = "Name" /\ Contains(node.bases[i].id, Id_TestCase)

\* line 69: item.name.startswith(("test_", "test"))
IsTestMethod(item) ==
    /\ item.kind = "FunctionDef"
    /\ (StartsWith(item.name, Id_test_) \/ StartsWith(item.name, Id_test))

\* ast.get_source_segment: the text of a parsed definition is the definition
SourceSegment(node) == node

\* lines 51-60 and 68-82: the records one visited node appends
FunctionRecords(node, path) ==
    IF IsTestFunction(node)
    THEN <<[name |-> node.name, body |-> SourceSegment(node), file |-> path]>>
    ELSE <<>>
MethodRecord(node, item, path) ==
    IF IsTestMethod(item)
    THEN <<[name |-> node.name \o <<".">> \o item.name, body |-> SourceSegment(item),
            file |-> path, class |-> node.name]>>
    ELSE <<>>
ClassRecords(node, path) ==
    IF IsTestCaseClass(node)
    THEN Flatten([k \in 1..Len(node.body) |-> MethodRecord(node, node.body[k], path)])
    ELSE <<>>

\* lines 9-88: the pair (tests, error) returned
extract_test_functions(f) ==
    IF ~QuickCheck(f) THEN [tests |-> <<>>, error |-> "None"]
    ELSE IF ~f.syntax_ok THEN [tests |-> <<>>, error |-> "SyntaxError"]
    ELSE LET nodes == Walk(f.body)
         IN [tests |-> Flatten([k \in 1..Len(nodes) |->
                          FunctionRecords(nodes[k], f.path) \o ClassRecords(nodes[k], f.path)]),
             error |-> "None"]

\* ------------------------------------------------------------------------
\* Extractor driver: process_repo and main, scripts/03_extract_tests.py
\* ------------------------------------------------------------------------
DrMaxRepos == 3         \* lines of repos_with_tests.txt
DrMaxFiles == 2         \* candidate test files in one clone
DrMaxTests == 1         \* tests extracted from one file
DrMaxCpus == 3          \* multiprocessing.cpu_count()

\* a repository identifier is its path segments: owner/name
DrRepos == {<<"a", "x">>, <<"b", "x">>, <<"a", "y">>}
DrDirs == {"x", "y"}
\* line 92: repo.split("/")[-1]
CloneDirName(repo) == repo[Len(repo)]

\* a candidate test file of a clone (line 117), by what extraction finds in it
DrFileKinds == [tests : 0..DrMaxTests, syntax_ok : {TRUE}] \cup
               [tests : {0}, syntax_ok : {FALSE}]
DrClones == {Absent} \cup {Present(fs) : fs \in SeqsUpTo(DrFileKinds, DrMaxFiles)}
DrCloneTrees == [DrDirs -> DrClones]

\* line 122: what extract_test_functions returns for such a file
DrExtract(f, path) ==
    IF f.syntax_ok
    THEN [tests |-> [k \in 1..f.tests |-> [name |-> k, body |-> <<path, k>>, file |-> path]],
          error |-> "None"]
    ELSE [tests |-> <<>>, error |-> "SyntaxError"]

\* lines 120-140: the loop over the test files of one clone
RECURSIVE ProcessFiles(_, _, _, _, _)
ProcessFiles(repo, dir, files, i, acc) ==
    IF i > Len(files) THEN acc
    ELSE LET relative_path == <<i>>
             r == DrExtract(files[i], <<dir>> \o relative_path)
             a1 == [acc EXCEPT !.processed_files = @ + 1]
             a2 == IF r.error # "None"
                   THEN [a1 EXCEPT !.failed_files =
                            Append(@, [file |-> relative_path, error |-> r.error])]
                   ELSE a1
             a3 == IF r.tests # <<>>
                   THEN [a2 EXCEPT !.test_files_count = @ + 1,
                                   !.test_functions_count = @ + Len(r.tests),
                                   !.dataset_entries =
                                       Append(@, [repo |-> repo, file |-> relative_path,
                                                  tests |-> r.tests])]
                   ELSE a2
         IN ProcessFiles(repo, dir, files, i + 1, a3)

\* lines 90-147: the triple (repo, repo_metadata, dataset_entries) returned
process_repo(repo, clones) ==
    LET repo_path == clones[CloneDirName(repo)]
    IN IF repo_path = Absent
       THEN [repo |-> repo,
             repo_metadata |-> [status |-> "skipped", error |-> "Directory not found"],
             repo_dataset |-> <<>>]
       ELSE LET acc == ProcessFiles(repo, CloneDirName(repo), ContentOf(repo_path), 1,
                           [test_files_count |-> 0, test_functions_count |-> 0,
                            failed_files |-> <<>>, processed_files |-> 0,
                            dataset_entries |-> <<>>])
            IN [repo |-> repo,
                repo_metadata |->
                    [status |-> "processed",
                     test_files_count |-> acc.test_files_count,
                     test_functions_count |-> acc.test_functions_count,
                     processed_files |-> acc.processed_files,
                     failed_files |-> acc.failed_files,
                     failed_files_count |-> Len(acc.failed_files)],
                repo_dataset |-> acc.dataset_entries]

\* lines 165-172
InitialMetadata ==
    [timestamp |-> "now",
     total_repositories |-> 0,
     successful_repositories |-> 0,
     total_test_files_found |-> 0,
     total_test_functions_found |-> 0,
     repositories |-> EmptyDict]

\* line 179
NumProcesses(cpu_count) == IF cpu_count - 1 > 1 THEN cpu_count - 1 ELSE 1

\* lines 192-201: one result folded into the aggregates
MergeMetadata(md, result) ==
    LET m == result.repo_metadata
        md1 == [md EXCEPT !.repositories = DictPut(@, result.repo, m)]
    IN IF m.test_files_count > 0
       THEN [md1 EXCEPT !.successful_repositories = @ + 1,
                        !.total_test_files_found = @ + m.test_files_count,
                        !.total_test_functions_found = @ + m.test_functions_count]
       ELSE md1

\* ------------------------------------------------------------------------
\* A stage that is not the one under study stays idle
\* ------------------------------------------------------------------------
DedupIdle ==
    /\ ddPc = "idle"
    /\ ddFile = Absent
    /\ data = <<>>
    /\ total_tests = 0
    /\ unique_tests = EmptyDict
    /\ duplicate_counts = EmptyDict
    /\ repo_duplicate_counts = <<>>
    /\ deduplicated_data = <<>>
    /\ seen_files = {}
    /\ dedup_stats = InitialStats(<<>>)
    /\ ddWritten = [dataset |-> Absent, stats |-> Absent]
    /\ ddExit = "running"

NormIdle ==
    /\ nmPc = "idle"
    /\ nmFile = Absent
    /\ nmData = <<>>
    /\ normalized_count = 0
    /\ skipped_count = 0
    /\ nmWarnings = 0
    /\ nmWritten = Absent
    /\ nmExit = "running"

ExtractIdle ==
    /\ exPc = "idle"
    /\ exFile = [path |-> "p1", syntax_ok |-> TRUE, body |-> <<>>]
    /\ exResult = [tests |-> <<>>, error |-> "None"]

DriverIdle ==
    /\ drPc = "idle"
    /\ drClonesDir = Absent
    /\ drReposFile = Absent
    /\ drCpus = 1
    /\ repos = <<>>
    /\ extraction_metadata = InitialMetadata
    /\ dataset = <<>>
    /\ drTasks = <<>>
    /\ drResults = <<>>
    /\ drWritten = [dataset |-> Absent, metadata |-> Absent]
    /\ drExit = "running"

InitDedup ==
    /\ NormIdle
    /\ ExtractIdle
    /\ DriverIdle
    /\ ddPc = "load"
    /\ ddFile \in {Absent} \cup {Present(d) : d \in DdDatasets}
    /\ data = <<>>
    /\ total_tests = 0
    /\ unique_tests = EmptyDict
    /\ duplicate_counts = EmptyDict
    /\ repo_duplicate_counts = <<>>
    /\ deduplicated_data = <<>>
    /\ seen_files = {}
    /\ dedup_stats = InitialStats(<<>>)
    /\ ddWritten = [dataset |-> Absent, stats |-> Absent]
    /\ ddExit = "running"

\* lines 5-23: read the input (an absent file raises, ending the script)
DedupLoad ==
    /\ ddPc = "load"
    /\ IF ddFile = Absent
       THEN /\ ddPc' = "exited"
            /\ ddExit' = "error"
            /\ UNCHANGED <<data, dedup_stats>>
       ELSE /\ ddPc' = "scan"
            /\ data' = ContentOf(ddFile)
            /\ dedup_stats' = InitialStats(ContentOf(ddFile))
            /\ UNCHANGED ddExit
    /\ UNCHANGED <<ddFile, total_tests, unique_tests, duplicate_counts,
                   repo_duplicate_counts, deduplicated_data, seen_files, ddWritten>>

\* lines 25-44
DedupScan ==
    /\ ddPc = "scan"
    /\ LET r == ScanEntries(data, 1,
                    [total |-> total_tests, unique |-> unique_tests,
                     dups |-> duplicate_counts, repoDups |-> repo_duplicate_counts])
       IN /\ total_tests' = r.total
          /\ unique_tests' = r.unique
          /\ duplicate_counts' = r.dups
          /\ repo_duplicate_counts' = r.repoDups
    /\ ddPc' = "filter"
    /\ UNCHANGED <<ddFile, data, deduplicated_data, seen_files, dedup_stats,
                   ddWritten, ddExit>>

\* lines 46-64
DedupFilter ==
    /\ ddPc = "filter"
    /\ LET r == FilterEntries(data, 1, unique_tests, [seen |-> {}, out |-> <<>>])
       IN /\ deduplicated_data' = r.out
          /\ seen_files' = r.seen
    /\ ddPc' = "stats"
    /\ UNCHANGED <<ddFile, data, total_tests, unique_tests, duplicate_counts,
                   repo_duplicate_counts, dedup_stats, ddWritten, ddExit>>

\* lines 66-75
DedupStats ==
    /\ ddPc = "stats"
    /\ dedup_stats' =
         [dedup_stats EXCEPT
            !.unique_entries = Len(deduplicated_data),
            !.unique_tests = Cardinality(DOMAIN unique_tests),
            !.duplicate_entries = dedup_stats.original_entries - Len(deduplicated_data),
            !.duplicate_tests = dedup_stats.original_tests - Cardinality(DOMAIN unique_tests),
            !.repositories_with_duplicates = Len(repo_duplicate_counts),
            !.top_duplicate_repos = MostCommon(repo_duplicate_counts, TopN)]
    /\ ddPc' = "save"
    /\ UNCHANGED <<ddFile, data, total_tests, unique_tests, duplicate_counts,
                   repo_duplicate_counts, deduplicated_data, seen_files,
                   ddWritten, ddExit>>

\* lines 77-85
DedupSave ==
    /\ ddPc = "save"
    /\ ddWritten' = [dataset |-> Present(deduplicated_data), stats |-> Present(dedup_stats)]
    /\ ddPc' = "summary"
    /\ UNCHANGED <<ddFile, data, total_tests, unique_tests, duplicate_counts,
                   repo_duplicate_counts, deduplicated_data, seen_files,
                   dedup_stats, ddExit>>

\* lines 87-99: the percentage on line 91 divides by original_tests
DedupSummary ==
    /\ ddPc = "summary"
    /\ ddPc' = "exited"
    /\ ddExit' = IF dedup_stats.original_tests = 0 THEN "error" ELSE "ok"
    /\ UNCHANGED <<ddFile, data, total_tests, unique_tests, duplicate_counts,
                   repo_duplicate_counts, deduplicated_data, seen_files,
                   dedup_stats, ddWritten>>

NextDedup ==
    \/ DedupLoad /\ UNCHANGED <<nmVars, exVars, drVars>>
    \/ DedupScan /\ UNCHANGED <<nmVars, exVars, drVars>>
    \/ DedupFilter /\ UNCHANGED <<nmVars, exVars, drVars>>
    \/ DedupStats /\ UNCHANGED <<nmVars, exVars, drVars>>
    \/ DedupSave /\ UNCHANGED <<nmVars, exVars, drVars>>
    \/ DedupSummary /\ UNCHANGED <<nmVars, exVars, drVars>>

SpecDedup == InitDedup /\ [][NextDedup]_vars

InitNorm ==
    /\ DedupIdle
    /\ ExtractIdle
    /\ DriverIdle
    /\ nmPc = "load"
    /\ nmFile \in {Absent} \cup {Present(d) : d \in NmDatasets}
    /\ nmData = <<>>
    /\ normalized_count = 0
    /\ skipped_count = 0
    /\ nmWarnings = 0
    /\ nmWritten = Absent
    /\ nmExit = "running"

\* lines 42-51: a failed load is logged and normalize_dataset returns
NormLoad ==
    /\ nmPc = "load"
    /\ IF nmFile = Absent
       THEN nmPc' = "main" /\ UNCHANGED nmData
       ELSE nmPc' = "loop" /\ nmData' = ContentOf(nmFile)
    /\ normalized_count' = 0
    /\ skipped_count' = 0
    /\ UNCHANGED <<nmFile, nmWarnings, nmWritten, nmExit>>

\* lines 53-65
NormLoop ==
    /\ nmPc = "loop"
    /\ LET r == NormalizeEntries(nmData, 1,
                    [tests |-> <<>>, normalized |-> normalized_count,
                     skipped |-> skipped_count, warnings |-> nmWarnings])
       IN /\ nmData' = r.tests
          /\ normalized_count' = r.normalized
          /\ skipped_count' = r.skipped
          /\ nmWarnings' = r.warnings
    /\ nmPc' = "save"
    /\ UNCHANGED <<nmFile, nmWritten, nmExit>>

\* lines 67-72
NormSave ==
    /\ nmPc = "save"
    /\ nmWritten' = Present(nmData)
    /\ nmPc' = "main"
    /\ UNCHANGED <<nmFile, nmData, normalized_count, skipped_count, nmWarnings, nmExit>>

\* lines 80-82: back in __main__, "Done!" is logged and the script ends
NormDone ==
    /\ nmPc = "main"
    /\ nmPc' = "exited"
    /\ nmExit' = "ok"
    /\ UNCHANGED <<nmFile, nmData, normalized_count, skipped_count, nmWarnings, nmWritten>>

NextNorm ==
    \/ NormLoad /\ UNCHANGED <<ddVars, exVars, drVars>>
    \/ NormLoop /\ UNCHANGED <<ddVars, exVars, drVars>>
    \/ NormSave /\ UNCHANGED <<ddVars, exVars, drVars>>
    \/ NormDone /\ UNCHANGED <<ddVars, exVars, drVars>>

SpecNorm == InitNorm /\ [][NextNorm]_vars

InitExtract ==
    /\ DedupIdle
    /\ NormIdle
    /\ DriverIdle
    /\ exPc = "call"
    /\ exFile \in ExSourceFiles
    /\ exResult = [tests |-> <<>>, error |-> "None"]

Extract ==
    /\ exPc = "call"
    /\ exResult' = extract_test_functions(exFile)
    /\ exPc' = "returned"
    /\ UNCHANGED exFile

NextExtract ==
    \/ Extract /\ UNCHANGED <<ddVars, nmVars, drVars>>

SpecExtract == InitExtract /\ [][NextExtract]_vars

InitDriver ==
    /\ DedupIdle
    /\ NormIdle
    /\ ExtractIdle
    /\ drPc = "start"
    /\ drClonesDir \in {Absent} \cup {Present(t) : t \in DrCloneTrees}
    /\ drReposFile \in {Absent} \cup {Present(l) : l \in SeqsUpTo(DrRepos, DrMaxRepos)}
    /\ drCpus \in 1..DrMaxCpus
    /\ repos = <<>>
    /\ extraction_metadata = InitialMetadata
    /\ dataset = <<>>
    /\ drTasks = <<>>
    /\ drResults = <<>>
    /\ drWritten = [dataset |-> Absent, metadata |-> Absent]
    /\ drExit = "running"

\* lines 149-186: either mandatory path missing ends the run with exit(1)
MainStart ==
    /\ drPc = "start"
    /\ IF drClonesDir = Absent \/ drReposFile = Absent
       THEN /\ drPc' = "exited"
            /\ drExit' = "error"
            /\ UNCHANGED <<repos, extraction_metadata, drTasks>>
       ELSE /\ drPc' = "pool"
            /\ repos' = ContentOf(drReposFile)
            /\ extraction_metadata' =
                 [InitialMetadata EXCEPT !.total_repositories = Len(ContentOf(drReposFile))]
            /\ drTasks' = [i \in 1..Len(ContentOf(drReposFile)) |-> "queued"]
            /\ UNCHANGED drExit
    /\ dataset' = <<>>
    /\ UNCHANGED <<drClonesDir, drReposFile, drCpus, drResults, drWritten>>

\* a free pool worker takes the next repository of the list
WorkerTake(i) ==
    /\ drPc = "pool"
    /\ drTasks[i] = "queued"
    /\ \A j \in 1..(i - 1) : drTasks[j] # "queued"
    /\ Cardinality({j \in 1..Len(drTasks) : drTasks[j] = "running"}) < NumProcesses(drCpus)
    /\ drTasks' = [drTasks EXCEPT ![i] = "running"]
    /\ UNCHANGED <<drPc, drClonesDir, drReposFile, drCpus, repos, extraction_metadata,
                   dataset, drResults, drWritten, drExit>>

\* the worker runs process_repo and sends the result back (imap_unordered:
\* results arrive in completion order)
WorkerFinish(i) ==
    /\ drPc = "pool"
    /\ drTasks[i] = "running"
    /\ drTasks' = [drTasks EXCEPT ![i] = "done"]
    /\ drResults' = Append(drResults, process_repo(repos[i], ContentOf(drClonesDir)))
    /\ UNCHANGED <<drPc, drClonesDir, drReposFile, drCpus, repos, extraction_metadata,
                   dataset, drWritten, drExit>>

\* lines 186-201: the coordinator takes one result. Line 190 reads
\* repo_metadata['test_files_count'], which a skipped repository's metadata
\* does not hold: the KeyError ends the run.
MainMerge ==
    /\ drPc = "pool"
    /\ drResults # <<>>
    /\ LET result == Head(drResults)
       IN IF "test_files_count" \notin DOMAIN result.repo_metadata
          THEN /\ drPc' = "exited"
               /\ drExit' = "error"
               /\ UNCHANGED <<extraction_metadata, dataset>>
          ELSE /\ extraction_metadata' = MergeMetadata(extraction_metadata, result)
               /\ dataset' = dataset \o result.repo_dataset
               /\ UNCHANGED <<drPc, drExit>>
    /\ drResults' = Tail(drResults)
    /\ UNCHANGED <<drClonesDir, drReposFile, drCpus, repos, drTasks, drWritten>>

\* lines 203-234: every result was merged; the artifacts are written
MainWrite ==
    /\ drPc = "pool"
    /\ drResults = <<>>
    /\ \A i \in 1..Len(drTasks) : drTasks[i] = "done"
    /\ drWritten' = [dataset |-> IF dataset # <<>> THEN Present(dataset) ELSE drWritten.dataset,
                     metadata |-> Present(extraction_metadata)]
    /\ drPc' = "exited"
    /\ drExit' = "ok"
    /\ UNCHANGED <<drClonesDir, drReposFile, drCpus, repos, extraction_metadata,
                   dataset, drTasks, drResults>>

NextDriver ==
    \/ MainStart /\ UNCHANGED <<ddVars, nmVars, exVars>>
    \/ \E i \in 1..Len(drTasks) : WorkerTake(i) /\ UNCHANGED <<ddVars, nmVars, exVars>>
    \/ \E i \in 1..Len(drTasks) : WorkerFinish(i) /\ UNCHANGED <<ddVars, nmVars, exVars>>
    \/ MainMerge /\ UNCHANGED <<ddVars, nmVars, exVars>>
    \/ MainWrite /\ UNCHANGED <<ddVars, nmVars, exVars>>

SpecDriver == InitDriver /\ [][NextDriver]_vars

\* ------------------------------------------------------------------------
\* Deduplicator: properties
\* ------------------------------------------------------------------------
\* <<i, j>>: test j of entry i
Positions(d) == UNION {{<<i, j>> : j \in 1..Len(d[i].tests)} : i \in 1..Len(d)}
RecAt(d, p) == d[p[1]].tests[p[2]]
Earlier(p, q) == p[1] < q[1] \/ (p[1] = q[1] /\ p[2] < q[2])
BodiesOf(d) == {RecAt(d, p).body : p \in Positions(d)}
WithBody(d, b) == {p \in Positions(d) : RecAt(d, p).body = b}
\* the position of the record first encountered with body b, in input-array order
FirstPos(d, b) == CHOOSE p \in WithBody(d, b) : \A q \in WithBody(d, b) : ~Earlier(q, p)
IsCanonicalPos(d, p) == p = FirstPos(d, RecAt(d, p).body)
TotalTests(d) == SumSeq([i \in 1..Len(d) |-> Len(d[i].tests)])
DdFiltered == ddPc \in {"stats", "save", "summary"} \/ (ddPc = "exited" /\ ddFile # Absent)

\* C1: for every body text of the input, exactly one TestRecord with that body
\* is present in the deduplicated dataset, and it is the record first
\* encountered in input-array order.
C1_ExactlyOneSurvivor ==
    DdFiltered =>
        \A b \in BodiesOf(data) :
            /\ Cardinality(WithBody(deduplicated_data, b)) = 1
            /\ \A p \in WithBody(deduplicated_data, b) :
                   RecAt(deduplicated_data, p) = RecAt(data, FirstPos(data, b))

\* the tests of input entry i that are the first-encountered record of their body
CanonicalTestsOf(d, i) ==
    LET keep == {j \in 1..Len(d[i].tests) : IsCanonicalPos(d, <<i, j>>)}
        F[j \in 0..Len(d[i].tests)] ==
            IF j = 0 THEN <<>>
            ELSE IF j \in keep THEN Append(F[j - 1], d[i].tests[j]) ELSE F[j - 1]
    IN F[Len(d[i].tests)]
FirstWithKey(d, k) ==
    CHOOSE i \in 1..Len(d) :
        FileRepoKey(d[i]) = k /\ \A j \in 1..(i - 1) : FileRepoKey(d[j]) # k

\* C5: the deduplicated dataset holds at most one entry per repo:file key, the
\* entry kept is the first appearance of that key in the input, and its tests
\* are exactly that entry's canonical records, of which there is at least one.
C5_FirstAppearanceKept ==
    DdFiltered =>
        /\ \A m, n \in 1..Len(deduplicated_data) :
               FileRepoKey(deduplicated_data[m]) = FileRepoKey(deduplicated_data[n]) => m = n
        /\ \A m \in 1..Len(deduplicated_data) :
               LET e == deduplicated_data[m]
                   i == FirstWithKey(data, FileRepoKey(e))
               IN /\ e.tests # <<>>
                  /\ e.repo = data[i].repo /\ e.file = data[i].file
                  /\ e.tests = CanonicalTestsOf(data, i)

\* C9: the written statistics describe the written dataset: unique_entries is
\* its number of entries, unique_tests its number of TestRecords, and
\* duplicate_tests is the number of records removed, which is the sum of the
\* per-repository duplicate counts.
C9_StatsDescribeOutput ==
    (ddWritten.stats # Absent) =>
        LET st == ContentOf(ddWritten.stats)
            out == ContentOf(ddWritten.dataset)
        IN /\ st.unique_entries = Len(out)
           /\ st.unique_tests = TotalTests(out)
           /\ st.duplicate_tests = st.original_tests - TotalTests(out)
           /\ st.duplicate_tests =
                SumSeq([i \in 1..Len(repo_duplicate_counts) |-> repo_duplicate_counts[i].count])

\* ------------------------------------------------------------------------
\* Normalizer: properties
\* ------------------------------------------------------------------------
NmPositions(d) == UNION {{<<i, j>> : j \in 1..Len(d[i].tests)} : i \in 1..Len(d)}
NmLooped == nmPc = "save" \/ nmWritten # Absent
\* the tests of the input whose formatting raises / whose body ends up different
NmRaised == {p \in NmPositions(ContentOf(nmFile)) :
                BlackFails(ContentOf(nmFile)[p[1]].tests[p[2]].body)}
NmChanged == {p \in NmPositions(ContentOf(nmFile)) :
                nmData[p[1]].tests[p[2]].body # ContentOf(nmFile)[p[1]].tests[p[2]].body}

\* C6: after normalize_dataset every test whose formatting raised keeps its
\* original body, the skipped count is the number of such tests and the
\* normalized count is the number of tests whose body changed.
C6_SkipTally ==
    NmLooped =>
        /\ \A p \in NmRaised :
               nmData[p[1]].tests[p[2]].body = ContentOf(nmFile)[p[1]].tests[p[2]].body
        /\ skipped_count = Cardinality(NmRaised)
        /\ normalized_count = Cardinality(NmChanged)

\* the frame of one dataset against the input: same entries in the same order,
\* same tests in the same order, only body fields may differ, and a test whose
\* formatting fails has its input body
SameButBodies(out, inp) ==
    /\ Len(out) = Len(inp)
    /\ \A i \in 1..Len(inp) :
        /\ out[i].repo = inp[i].repo
        /\ out[i].file = inp[i].file
        /\ DOMAIN out[i] = DOMAIN inp[i]
        /\ Len(out[i].tests) = Len(inp[i].tests)
        /\ \A j \in 1..Len(inp[i].tests) :
            /\ [out[i].tests[j] EXCEPT !.body = <<>>] = [inp[i].tests[j] EXCEPT !.body = <<>>]
            /\ BlackFails(inp[i].tests[j].body) => out[i].tests[j].body = inp[i].tests[j].body

\* C7: the dataset held after the loop and the dataset written have the
\* structure and entry set of the input; only body fields differ, and never
\* for a test whose formatting fails.
C7_OnlyBodiesDiffer ==
    /\ nmPc = "save" => SameButBodies(nmData, ContentOf(nmFile))
    /\ nmWritten # Absent => SameButBodies(ContentOf(nmWritten), ContentOf(nmFile))

\* C7 witness: a two-entry dataset was written in which one test failed to
\* format and kept its body while another test was rewritten.
C7_Witness ==
    /\ nmWritten # Absent
    /\ Len(ContentOf(nmWritten)) = 2
    /\ NmRaised # {}
    /\ NmChanged # {}
    /\ \E i \in 1..Len(nmData) : Len(nmData[i].tests) = 2

\* ------------------------------------------------------------------------
\* Extractor: properties
\* ------------------------------------------------------------------------
\* class FooTests(unittest.TestCase): def test_x(self): pass; def setup(self): pass
C3Method(name) == [kind |-> "FunctionDef", name |-> name, decorator_list |-> <<>>]
C3File ==
    [path |-> "p1", syntax_ok |-> TRUE,
     body |-> <<[kind |-> "ClassDef", name |-> Id_FooTests,
                 bases |-> <<AttributeNode(NameNode(Id_unittest), Id_TestCase)>>,
                 body |-> <<C3Method(Id_test_x), C3Method(Id_setup)>>]>>]

\* C3: for that file extract_test_functions yields exactly one TestRecord,
\* named FooTests.test_x and tagged with class FooTests.
C3_TestCaseScenario ==
    (exPc = "returned" /\ exFile = C3File) =>
        /\ Len(exResult.tests) = 1
        /\ exResult.tests[1].name = Id_FooTests \o <<".">> \o Id_test_x
        /\ "class" \in DOMAIN exResult.tests[1]
        /\ exResult.tests[1].class = Id_FooTests

\* the claimed test predicate: a test_ prefix, a _test suffix, a call decorator
\* whose invoked target has an attribute named mark (pytest.mark.parametrize(...)
\* included), or a bare-name decorator containing "test" in any case
C4MarkCall(d) == d.kind = "Call" /\ Id_mark \in ExprIds(d.func)
C4Predicate(node) ==
    \/ StartsWith(node.name, Id_test_)
    \/ EndsWith(node.name, Id__test)
    \/ \E i \in 1..Len(node.decorator_list) : C4MarkCall(node.decorator_list[i])
    \/ \E i \in 1..Len(node.decorator_list) : TestNameDecorator(node.decorator_list[i])
C4FunctionDefs(f) ==
    {n \in {Walk(f.body)[k] : k \in 1..Len(Walk(f.body))} : n.kind = "FunctionDef"}
C4EmittedByFunctionRule(node) ==
    \E k \in 1..Len(exResult.tests) :
        /\ "class" \notin DOMAIN exResult.tests[k]
        /\ exResult.tests[k].body = node

\* C4: a function definition is emitted by the function rule if and only if it
\* meets the claimed test predicate.
C4_FunctionRule ==
    (exPc = "returned" /\ exFile.syntax_ok) =>
        \A node \in C4FunctionDefs(exFile) :
            C4EmittedByFunctionRule(node) <=> C4Predicate(node)

\* ------------------------------------------------------------------------
\* Extractor driver: properties
\* ------------------------------------------------------------------------
DrInputsPresent == drClonesDir # Absent /\ drReposFile # Absent
DrListed == ContentOf(drReposFile)
DrResultOf(i) == process_repo(DrListed[i], ContentOf(drClonesDir))
DrSkipped == {i \in 1..Len(DrListed) :
                 ContentOf(drClonesDir)[CloneDirName(DrListed[i])] = Absent}
DrAllEntries == Flatten([i \in 1..Len(DrListed) |-> DrResultOf(i).repo_dataset])
CountIn(s, e) == Cardinality({k \in 1..Len(s) : s[k] = e})
SameEntries(s, t) ==
    /\ Len(s) = Len(t)
    /\ \A k \in 1..Len(t) : CountIn(s, t[k]) = CountIn(t, t[k])
DrTotalTests(d) == SumSeq([k \in 1..Len(d) |-> Len(d[k].tests)])

\* C2: when a listed repository has no clone directory, process_repo returns
\* "skipped" with no entries and the run does not fail: the repository is
\* recorded as skipped, it adds nothing to the totals, the other repositories
\* are merged and both artifacts are written.
C2_SkippedRepoNonFatal ==
    (drPc = "exited" /\ DrInputsPresent /\ DrSkipped # {}) =>
        /\ \A i \in DrSkipped :
               /\ DrResultOf(i).repo_metadata.status = "skipped"
               /\ DrResultOf(i).repo_dataset = <<>>
        /\ drExit = "ok"
        /\ drWritten.metadata # Absent
        /\ LET md == ContentOf(drWritten.metadata)
               kept == (1..Len(DrListed)) \ DrSkipped
           IN /\ \A i \in DrSkipped :
                     /\ DrListed[i] \in DOMAIN md.repositories
                     /\ md.repositories[DrListed[i]].status = "skipped"
              /\ md.successful_repositories =
                     Cardinality({i \in kept : DrResultOf(i).repo_dataset # <<>>})
              /\ md.total_test_files_found = Len(DrAllEntries)
              /\ md.total_test_functions_found = DrTotalTests(DrAllEntries)
        /\ SameEntries(dataset, DrAllEntries)
        /\ dataset # <<>> => drWritten.dataset = Present(dataset)

\* C10: whatever the order in which the workers complete, once all have
\* completed and the coordinator has taken their results it holds one metadata
\* record per listed repository, its totals count the entries and TestRecords
\* of the merged dataset, and the merged dataset holds every worker's entries
\* exactly once.
C10_MergeOrderIndependent ==
    (/\ DrInputsPresent
     /\ drPc \in {"pool", "exited"}
     /\ \A i \in 1..Len(drTasks) : drTasks[i] = "done"
     /\ (drResults = <<>> \/ drPc = "exited")) =>
        /\ DOMAIN extraction_metadata.repositories =
               {DrListed[i] : i \in 1..Len(DrListed)}
        /\ extraction_metadata.total_test_files_found = Len(dataset)
        /\ extraction_metadata.total_test_functions_found = DrTotalTests(dataset)
        /\ SameEntries(dataset, DrAllEntries)

\* ------------------------------------------------------------------------
\* Exit behaviour of the three stages
\* ------------------------------------------------------------------------
\* C8: each stage ends with an error status if and only if one of its
\* mandatory input paths is missing.
C8_ExitStatus ==
    /\ drPc = "exited" => (drExit = "error" <=> ~DrInputsPresent)
    /\ ddPc = "exited" => (ddExit = "error" <=> ddFile = Absent)
    /\ nmPc = "exited" => (nmExit = "error" <=> nmFile = Absent)

====
